---------------------------- MODULE Spec2Model ----------------------------
(***************************************************************************)
(* Model of q2_feature_classifier/_classifier.py: building a Pipeline from *)
(* a pipeline specification, the load-time registration of the fit and     *)
(* classify actions, the synthesis of one specialized fitter per entry of  *)
(* _specific_fitters, and the invocation of those actions.                 *)
(*                                                                         *)
(* Python values are records [t |-> type tag, v |-> tokens].  A str is its *)
(* text cut into tokens; "_" and the JSON punctuation are tokens of their  *)
(* own, so concatenating texts is concatenating token sequences.  A dict   *)
(* with str keys is a function whose domain is the key set.                *)
(***************************************************************************)
EXTENDS Integers, Sequences, FiniteSets, TLC

VARIABLES
    pc,        \* position of the module-level code being executed at import
    fitters,   \* _specific_fitters: the list of (name, spec); specs are shared objects
    fnname,    \* __name__ of fit_classifier, of classify and of the current generic_fitter
    calls,     \* the plugin.methods.register_function calls made so far, in order
    idx,       \* the entry of _specific_fitters the loop of line 178 is at
    last,      \* the call of a fit action in progress: what its lines produced
    pred       \* the call of predict made by classify on the record of that call

vars == <<pc, idx, fitters, fnname, calls, last, pred>>

----------------------------------------------------------------------------
(* Python values *)

PyInt(tok)   == [t |-> "int",   v |-> <<tok>>]
PyFloat(tok) == [t |-> "float", v |-> <<tok>>]
PyBool(b)    == [t |-> "bool",  v |-> <<IF b THEN "True" ELSE "False">>]
PyStr(toks)  == [t |-> "str",   v |-> toks]
PyNone       == [t |-> "None",  v |-> <<>>]
PyList(toks) == [t |-> "list",  v |-> toks]
PyTuple(toks) == [t |-> "tuple", v |-> toks]
\* a function or a class used as a value (numpy.float64, a tokenizer)
PyCallable(tok) == [t |-> "callable", v |-> <<tok>>]
\* a plain object that is neither callable nor JSON serializable
PyObject(tok) == [t |-> "object", v |-> <<tok>>]
\* inspect.Parameter.empty, the default of a parameter that has none; it is a class
PyEmpty      == [t |-> "callable", v |-> <<"inspect._empty">>]
PyError(tok) == [t |-> "error", v |-> <<tok>>]

IsError(x) == x.t = "error"

\* the builtin callable()
callable(x) == x.t = "callable"

IntTokens   == {"8", "-1", "1", "5", "4"}
FloatTokens == {"1.0", "0.01"}

----------------------------------------------------------------------------
(* json.dumps and json.loads, on token sequences *)

RECURSIVE JoinComma(_)
JoinComma(toks) ==
    IF toks = <<>> THEN <<>>
    ELSE IF Len(toks) = 1 THEN toks
    ELSE <<Head(toks), ",">> \o JoinComma(Tail(toks))

\* json.dumps(x): the JSON text of x, or the TypeError json raises
json_dumps(x) ==
    CASE x.t = "None" -> PyStr(<<"null">>)
      [] x.t = "bool" -> PyStr(<<IF x.v = <<"True">> THEN "true" ELSE "false">>)
      [] x.t \in {"int", "float"} -> PyStr(x.v)
      [] x.t = "str" -> PyStr(<<"\"">> \o x.v \o <<"\"">>)
      [] x.t \in {"list", "tuple"} -> PyStr(<<"[">> \o JoinComma(x.v) \o <<"]">>)
      [] OTHER -> PyError("TypeError")

\* the elements of a JSON array body  n , n , ... , n  of int literals
RECURSIVE SplitComma(_)
SplitComma(toks) ==
    IF toks = <<>> THEN <<>>
    ELSE IF Head(toks) \notin IntTokens THEN <<"bad">>
    ELSE IF Len(toks) = 1 THEN toks
    ELSE IF toks[2] # "," \/ Len(toks) = 2 THEN <<"bad">>
    ELSE LET rest == SplitComma(SubSeq(toks, 3, Len(toks)))
         IN  IF rest = <<"bad">> THEN rest ELSE <<Head(toks)>> \o rest

\* json.loads(x): the value the text encodes; TypeError when x is not text,
\* JSONDecodeError when the text is not JSON
json_loads(x) ==
    IF x.t # "str" THEN PyError("TypeError")
    ELSE LET s == x.v
             n == Len(s)
         IN  CASE s = <<"null">> -> PyNone
               [] s = <<"true">> -> PyBool(TRUE)
               [] s = <<"false">> -> PyBool(FALSE)
               [] n = 1 /\ s[1] \in IntTokens -> PyInt(s[1])
               [] n = 1 /\ s[1] \in FloatTokens -> PyFloat(s[1])
               [] n >= 2 /\ s[1] = "\"" /\ s[n] = "\""
                    /\ \A i \in 2..(n - 1) : s[i] # "\""
                    -> PyStr(SubSeq(s, 2, n - 1))
               [] n >= 2 /\ s[1] = "[" /\ s[n] = "]"
                    /\ SplitComma(SubSeq(s, 2, n - 1)) # <<"bad">>
                    -> PyList(SplitComma(SubSeq(s, 2, n - 1)))
               [] OTHER -> PyError("JSONDecodeError")

----------------------------------------------------------------------------
(* dicts with str keys *)

EmptyDict == [k \in {} |-> PyNone]

\* d[k] = v  /  {**d, k: v}
DictSet(d, k, v) == [x \in DOMAIN d \cup {k} |-> IF x = k THEN v ELSE d[x]]

\* d.get(k, dflt)
DictGet(d, k, dflt) == IF k \in DOMAIN d THEN d[k] ELSE dflt

\* {**a, **b} and a.update(b): the entries of b win
DictUpdate(a, b) == [x \in DOMAIN a \cup DOMAIN b |-> IF x \in DOMAIN b THEN b[x] ELSE a[x]]

----------------------------------------------------------------------------
(* The wrapped library: the classes a specification can name.  A class is  *)
(* the parameter list inspect.signature(cls) reports for its constructor:  *)
(* name, kind and default (PyEmpty when the parameter has none).           *)

Param(name, kind, default) == [name |-> name, kind |-> kind, default |-> default]

Modules == {<<"sk">>}

ClassDefs ==
    [HV  |-> << Param("n_features", "POSITIONAL_OR_KEYWORD", PyInt("5")),
                Param("ngram_range", "POSITIONAL_OR_KEYWORD", PyTuple(<<"1", "1">>)),
                Param("dtype", "POSITIONAL_OR_KEYWORD", PyCallable("float64")) >>,
     NB  |-> << Param("alpha", "POSITIONAL_OR_KEYWORD", PyFloat("1.0")),
                Param("fit_prior", "POSITIONAL_OR_KEYWORD", PyBool(TRUE)),
                Param("class_prior", "POSITIONAL_OR_KEYWORD", PyNone) >>,
     SGD |-> << Param("loss", "POSITIONAL_OR_KEYWORD", PyStr(<<"hinge">>)),
                Param("cb", "POSITIONAL_OR_KEYWORD", PyCallable("len")),
                Param("shape", "KEYWORD_ONLY", PyTuple(<<"1", "1">>)) >>,
     KW  |-> << Param("base", "POSITIONAL_OR_KEYWORD", PyEmpty),
                Param("args", "VAR_POSITIONAL", PyEmpty),
                Param("n", "KEYWORD_ONLY", PyInt("4")),
                Param("kw", "VAR_KEYWORD", PyEmpty) >>,
     Dup |-> << Param("word_length", "POSITIONAL_OR_KEYWORD", PyInt("4")) >>,
     Obj |-> << Param("state", "POSITIONAL_OR_KEYWORD", PyObject("RandomState")) >>]

\* the index of the last "." of a dotted name, 0 when it has none
RECURSIVE LastDot(_)
LastDot(name) ==
    IF name = <<>> THEN 0
    ELSE IF name[Len(name)] = "." THEN Len(name)
    ELSE LastDot(SubSeq(name, 1, Len(name) - 1))

\* _load_class(classname): the class, or the error rsplit's unpacking,
\* import_module or getattr raises
_load_class(classname) ==
    LET dot == LastDot(classname)
        module == SubSeq(classname, 1, dot - 1)
        klass == SubSeq(classname, dot + 1, Len(classname))
    IN  IF dot = 0 THEN PyError("ValueError")
        ELSE IF module \notin Modules THEN PyError("ImportError")
        ELSE IF Len(klass) # 1 \/ klass[1] \notin DOMAIN ClassDefs
             THEN PyError("AttributeError")
        ELSE [t |-> "class", name |-> klass[1]]

Named(cls) == {i \in 1..Len(ClassDefs[cls]) :
                  ClassDefs[cls][i].kind \in {"POSITIONAL_OR_KEYWORD", "KEYWORD_ONLY"}}

HasVarKeyword(cls) == \E i \in 1..Len(ClassDefs[cls]) : ClassDefs[cls][i].kind = "VAR_KEYWORD"

\* cls(**kwargs): an instance remembering the keyword arguments it was built
\* with, or the TypeError of an unexpected or a missing argument
Construct(cls, kwargs) ==
    LET ps == ClassDefs[cls]
        names == {ps[i].name : i \in Named(cls)}
    IN  IF \E k \in DOMAIN kwargs : k \notin names /\ ~HasVarKeyword(cls)
        THEN PyError("TypeError")
        ELSE IF \E i \in Named(cls) : ps[i].default = PyEmpty /\ ps[i].name \notin DOMAIN kwargs
        THEN PyError("TypeError")
        ELSE [t |-> "instance", cls |-> cls, kwargs |-> kwargs]

\* the value every constructor parameter of an instance ended up with
Effective(inst) ==
    LET ps == ClassDefs[inst.cls]
        dflt == [n \in {ps[i].name : i \in Named(inst.cls)} |->
                    ps[CHOOSE i \in Named(inst.cls) : ps[i].name = n].default]
    IN  DictUpdate(dflt, inst.kwargs)

----------------------------------------------------------------------------
(* Pipeline specifications.  A spec is the dict {'steps': [(name, class)], *)
(* step name: kwargs, ...}: field steps is spec['steps'], field kw holds   *)
(* the other keys.                                                         *)

MkSpec(steps, kw) == [t |-> "dict", steps |-> steps, kw |-> kw]

\* a faulty variant of BuildStep: the class is called without the step's arguments
BuildStep_NoKwargs(spec, s, c) ==
    LET cls == _load_class(c)
    IN  IF IsError(cls) THEN cls ELSE Construct(cls.name, EmptyDict)

\* the evaluation of  _load_class(c)(**spec.get(s, {}))  for one step
BuildStep(spec, s, c) ==
    LET cls == _load_class(c)
    IN  IF IsError(cls) THEN cls
        ELSE IF s = "steps" THEN PyError("TypeError")  \* ** of the steps list
        ELSE Construct(cls.name, DictGet(spec.kw, s, EmptyDict))

\* the list comprehension of _pipeline_from_spec: the steps built so far,
\* left to right, stopping at the first step that raises
RECURSIVE BuildSteps(_, _)
BuildSteps(spec, n) ==
    IF n = 0 THEN <<>>
    ELSE LET before == BuildSteps(spec, n - 1)
         IN  IF before # <<>> /\ IsError(before[Len(before)]) THEN before
             ELSE Append(before, BuildStep(spec, spec.steps[n][1], spec.steps[n][2]))

\* a faulty variant of _pipeline_from_spec: a step that raises is left out
_pipeline_from_spec_SkippingFailures(spec) ==
    LET ok == {i \in 1..Len(spec.steps) :
                  ~IsError(BuildStep(spec, spec.steps[i][1], spec.steps[i][2]))}
        nth(k) == CHOOSE i \in ok : Cardinality({j \in ok : j < i}) = k - 1
    IN  [t |-> "Pipeline",
         steps |-> [k \in 1..Cardinality(ok) |->
                       <<spec.steps[nth(k)][1],
                         BuildStep(spec, spec.steps[nth(k)][1], spec.steps[nth(k)][2])>>]]

\* _pipeline_from_spec(spec): Pipeline(steps), or the error of the failing step
_pipeline_from_spec(spec) ==
    LET built == BuildSteps(spec, Len(spec.steps))
    IN  IF built # <<>> /\ IsError(built[Len(built)]) THEN built[Len(built)]
        ELSE [t |-> "Pipeline",
              steps |-> [i \in 1..Len(built) |-> <<spec.steps[i][1], built[i]>>]]

----------------------------------------------------------------------------
(* Signatures and the synthesis of a specialized fitter *)

SigParam(name, kind, default, annotation) ==
    [name |-> name, kind |-> kind, default |-> default, annotation |-> annotation]

\* the parameters of fit_classifier
FitClassifierParams ==
    << SigParam("reference_reads", "POSITIONAL_OR_KEYWORD", PyEmpty, "generator"),
       SigParam("reference_taxonomy", "POSITIONAL_OR_KEYWORD", PyEmpty, "Series"),
       SigParam("classifier_specification", "POSITIONAL_OR_KEYWORD", PyEmpty, "str"),
       SigParam("word_length", "POSITIONAL_OR_KEYWORD", PyInt("8"), "int"),
       SigParam("taxonomy_separator", "POSITIONAL_OR_KEYWORD", PyStr(<<>>), "str"),
       SigParam("taxonomy_depth", "POSITIONAL_OR_KEYWORD", PyInt("-1"), "int"),
       SigParam("multioutput", "POSITIONAL_OR_KEYWORD", PyBool(FALSE), "bool") >>

\* inspect.signature(generic_fitter).parameters, **kwargs last
GenericParams ==
    << SigParam("reference_reads", "POSITIONAL_OR_KEYWORD", PyEmpty, "generator"),
       SigParam("reference_taxonomy", "POSITIONAL_OR_KEYWORD", PyEmpty, "Series"),
       SigParam("word_length", "POSITIONAL_OR_KEYWORD", PyInt("8"), "int"),
       SigParam("taxonomy_separator", "POSITIONAL_OR_KEYWORD", PyStr(<<>>), "str"),
       SigParam("taxonomy_depth", "POSITIONAL_OR_KEYWORD", PyInt("-1"), "int"),
       SigParam("multioutput", "POSITIONAL_OR_KEYWORD", PyBool(FALSE), "bool"),
       SigParam("kwargs", "VAR_KEYWORD", PyEmpty, "empty") >>

_fitter_parameters ==
    [word_length |-> "Int", taxonomy_separator |-> "Str",
     taxonomy_depth |-> "Int", multioutput |-> "Bool"]

\* a faulty variant of type_map: bool, a subclass of int, mapped to Int
type_map_BoolAsInt == [int |-> "Int", float |-> "Float", bool |-> "Int", str |-> "Str"]

type_map == [int |-> "Int", float |-> "Float", bool |-> "Bool", str |-> "Str"]

KindRank(kind) ==
    CASE kind = "POSITIONAL_ONLY" -> 0
      [] kind = "POSITIONAL_OR_KEYWORD" -> 1
      [] kind = "VAR_POSITIONAL" -> 2
      [] kind = "KEYWORD_ONLY" -> 3
      [] kind = "VAR_KEYWORD" -> 4

\* inspect.Signature(parameters=params): the checks of its constructor
SignatureValid(params) ==
    /\ \A i, j \in 1..Len(params) : i < j =>
          /\ params[i].name # params[j].name
          /\ KindRank(params[i].kind) <= KindRank(params[j].kind)
          /\ ~ /\ params[i].kind = params[j].kind
               /\ KindRank(params[j].kind) <= 1
               /\ params[i].default # PyEmpty
               /\ params[j].default = PyEmpty

\* a faulty variant of Skipped: a parameter defaulting to None is passed over too
Skipped_AlsoNone(parameter) == callable(parameter.default) \/ parameter.default = PyNone

\* line 116: the parameters the loop passes over
Skipped(parameter) == callable(parameter.default)

\* line 119: the annotation given to an exposed default
AnnotationOf(default) == IF default.t \in DOMAIN type_map THEN default.t ELSE "str"

\* a faulty variant of NewParam: the defaults given by the specification are not
\* looked at
NewParam_IgnoringSpec(parameter, defaults) ==
    LET default == parameter.default
        annotation == AnnotationOf(default)
    IN  SigParam(parameter.name, parameter.kind,
                 IF annotation = "str" THEN json_dumps(default) ELSE default,
                 annotation)

\* lines 118-122: the exposed parameter made from one constructor parameter
\* (its default is an error when json.dumps raises)
NewParam(parameter, defaults) ==
    LET default == DictGet(defaults, parameter.name, parameter.default)
        annotation == AnnotationOf(default)
    IN  SigParam(parameter.name, parameter.kind,
                 IF annotation = "str" THEN json_dumps(default) ELSE default,
                 annotation)

\* lines 115-124: signature_params, in the order of the constructor
RECURSIVE SignatureParams(_, _)
SignatureParams(ctor, defaults) ==
    IF ctor = <<>> THEN <<>>
    ELSE IF Skipped(Head(ctor)) THEN SignatureParams(Tail(ctor), defaults)
    ELSE <<NewParam(Head(ctor), defaults)>> \o SignatureParams(Tail(ctor), defaults)

\* line 149: list(generic_signature.parameters.values())[:-1]
FixedParams == SubSeq(GenericParams, 1, Len(GenericParams) - 1)

\* lines 109, 123, 147: the parameters map handed to register_function
ParametersMap(signature_params) ==
    DictUpdate([n \in {signature_params[i].name : i \in 1..Len(signature_params)} |->
                   LET p == CHOOSE q \in {signature_params[i] : i \in 1..Len(signature_params)} :
                               q.name = n
                   IN  DictGet(type_map, p.annotation, "Str")],
               _fitter_parameters)

\* lines 108-154 of _register_fitter: the synthesized signature and parameters
\* map, or the error that ends the import
Synthesize(spec) ==
    IF spec.steps = <<>> THEN PyError("IndexError")
    ELSE LET final == spec.steps[Len(spec.steps)]
             cls == _load_class(final[2])
         IN  IF final[1] # "steps" /\ final[1] \notin DOMAIN spec.kw THEN PyError("KeyError")
             ELSE IF IsError(cls) THEN cls
             ELSE LET ctor == ClassDefs[cls.name]
                      aslist == final[1] = "steps"  \* defaults is the steps list
                      sp == SignatureParams(ctor, IF aslist THEN EmptyDict ELSE spec.kw[final[1]])
                      new_params == FixedParams \o sp
                  IN  IF aslist /\ sp # <<>> THEN PyError("AttributeError")
                      ELSE IF \E i \in 1..Len(sp) : IsError(sp[i].default)
                           THEN PyError("TypeError")
                      ELSE IF ~SignatureValid(new_params) THEN PyError("ValueError")
                      ELSE [t |-> "fitter", class_name |-> final[2],
                            parameters |-> ParametersMap(sp), signature |-> new_params]

----------------------------------------------------------------------------
(* The fit actions *)

None == [t |-> "none"]

\* the defaults of word_length, taxonomy_separator, taxonomy_depth, multioutput
FitDefaults ==
    [word_length |-> PyInt("8"), taxonomy_separator |-> PyStr(<<>>),
     taxonomy_depth |-> PyInt("-1"), multioutput |-> PyBool(FALSE)]

\* the params dict built from the arguments the caller gave
Params(given) == DictUpdate(FitDefaults, given)

\* _skl.fit_pipeline: returns a fitted pipeline or raises
fit_pipeline(pipeline, params, outcome) ==
    IF outcome = "ok" THEN [t |-> "fitted", of |-> pipeline, with |-> params]
    ELSE PyError(outcome)

\* json.dumps of a whole specification: every value becomes its JSON text
SpecDumps(spec) ==
    [t |-> "str", wf |-> TRUE, steps |-> spec.steps,
     kw |-> [s \in DOMAIN spec.kw |->
                [k \in DOMAIN spec.kw[s] |-> json_dumps(spec.kw[s][k])]]]

\* text that is not JSON
Garbage == [t |-> "str", wf |-> FALSE, steps |-> <<>>, kw |-> EmptyDict]

\* json.loads of the text of a specification
SpecLoads(text) ==
    IF ~text.wf THEN PyError("JSONDecodeError")
    ELSE MkSpec(text.steps,
                [s \in DOMAIN text.kw |->
                    [k \in DOMAIN text.kw[s] |-> json_loads(text.kw[s][k])]])

\* fit_classifier(reads, taxonomy, classifier_specification, **given):
\* what each line produced, and what the caller receives (out)
fit_classifier(text, given, outcome) ==
    LET spec == SpecLoads(text)
        pipeline == IF IsError(spec) THEN None ELSE _pipeline_from_spec(spec)
        params == Params(given)
        ran == ~IsError(spec) /\ ~IsError(pipeline)
        fitted == IF ran THEN fit_pipeline(pipeline, params, outcome) ELSE None
    IN  [op |-> "fit_classifier", given |-> given, kwargs |-> EmptyDict,
         text |-> text, spec |-> spec, caught |-> EmptyDict, built |-> pipeline,
         fit_args |-> IF ran THEN <<[pipeline |-> pipeline, kwargs |-> params]>> ELSE <<>>,
         fitted |-> fitted,
         out |-> IF IsError(spec) THEN spec
                 ELSE IF IsError(pipeline) THEN pipeline
                 ELSE IF IsError(fitted) THEN fitted
                 ELSE [t |-> "dict", val |-> [params |-> params, pipeline |-> fitted]]]

\* a faulty variant of deepcopy: this_spec = spec, the shared object itself
deepcopy_Alias(spec) == [ref |-> "shared", val |-> spec]

\* copy.deepcopy(spec): a fresh object with the same contents
deepcopy(spec) == [ref |-> "copy", val |-> spec]

\* lines 132-136: each keyword argument decoded, or kept when json.loads
\* raises JSONDecodeError or TypeError
DecodeKwargs(kwargs) ==
    [p \in DOMAIN kwargs |->
        LET d == json_loads(kwargs[p])
        IN  IF IsError(d) /\ d.v[1] \in {"JSONDecodeError", "TypeError"}
            THEN kwargs[p] ELSE d]

\* the errors the except clause of lines 135-136 caught, by keyword
CaughtIn(kwargs) ==
    [p \in {q \in DOMAIN kwargs : IsError(json_loads(kwargs[q]))} |-> json_loads(kwargs[p])]

\* line 137: obj[key] = kwargs
SpecStore(obj, key, kwargs) ==
    IF key = "steps" THEN [obj EXCEPT !.steps = kwargs]
    ELSE [obj EXCEPT !.kw = DictSet(obj.kw, key, kwargs)]

\* line 138 when the final step is called 'steps' and line 137 has replaced the
\* steps list by kwargs: the comprehension unpacks each key of kwargs
PipelineOfKeys(kwargs) ==
    IF kwargs = EmptyDict THEN [t |-> "Pipeline", steps |-> <<>>]
    ELSE PyError("ValueError")

\* generic_fitter(reads, taxonomy, **given, **kwargs) of the fitter made for spec:
\* what each line produced, what the caller receives (out), and the contents of
\* the shared spec object when it returns (shared)
generic_fitter(spec, given, kwargs, outcome) ==
    LET this_spec == deepcopy(spec)
        decoded == DecodeKwargs(kwargs)
        key == spec.steps[Len(spec.steps)][1]
        stored == SpecStore(this_spec.val, key, decoded)
        pipeline == IF key = "steps" THEN PipelineOfKeys(decoded)
                    ELSE _pipeline_from_spec(stored)
        params == Params(given)
        ran == ~IsError(pipeline)
        fitted == IF ran THEN fit_pipeline(pipeline, params, outcome) ELSE None
    IN  [op |-> "generic_fitter", given |-> given, kwargs |-> kwargs,
         text |-> Garbage, spec |-> stored, caught |-> CaughtIn(kwargs), built |-> pipeline,
         fit_args |-> IF ran THEN <<[pipeline |-> pipeline, kwargs |-> params]>> ELSE <<>>,
         fitted |-> fitted,
         shared |-> IF this_spec.ref = "copy" THEN spec ELSE stored,
         out |-> IF IsError(pipeline) THEN pipeline
                 ELSE IF IsError(fitted) THEN fitted
                 ELSE [t |-> "dict", val |-> [params |-> params, pipeline |-> fitted]]]

\* a faulty variant of classify: predict is called without the stored params
classify_NoParams(classifier) ==
    [pipeline |-> classifier["pipeline"], kwargs |-> EmptyDict]

\* classify(reads, classifier): the call of predict it makes
classify(classifier) ==
    [pipeline |-> classifier["pipeline"], kwargs |-> classifier["params"]]

----------------------------------------------------------------------------
(* Inputs: the contents of _specific_fitters and the arguments of calls *)

MaxFitters == 2

NameChoices ==
    { <<"nb">>, <<"paired", "_", "end">>, <<"nb", "_", "paired", "_", "end">> }

HVName  == <<"sk", ".", "HV">>
NBName  == <<"sk", ".", "NB">>

SpecChoices ==
    { \* a feature extractor and a classifier, the classifier's alpha overridden
      MkSpec(<< <<"feat", HVName>>, <<"clf", NBName>> >>,
             [feat |-> [n_features |-> PyInt("8")], clf |-> [alpha |-> PyFloat("0.01")]]),
      \* a classifier with a str, a callable and a tuple default
      MkSpec(<< <<"clf", <<"sk", ".", "SGD">> >> >>, [clf |-> EmptyDict]),
      \* a classifier whose constructor has a required parameter, given by the spec
      MkSpec(<< <<"clf", <<"sk", ".", "KW">> >> >>, [clf |-> [base |-> PyInt("5")]]),
      \* a first step called 'steps'
      MkSpec(<< <<"steps", HVName>>, <<"clf", NBName>> >>, [clf |-> EmptyDict]),
      \* no entry for the final step
      MkSpec(<< <<"feat", HVName>>, <<"clf", NBName>> >>,
             [feat |-> [n_features |-> PyInt("8")]]),
      \* a constructor parameter called like a fixed parameter
      MkSpec(<< <<"clf", <<"sk", ".", "Dup">> >> >>, [clf |-> EmptyDict]),
      \* a default json cannot encode
      MkSpec(<< <<"clf", <<"sk", ".", "Obj">> >> >>, [clf |-> EmptyDict]),
      \* a class name without a module
      MkSpec(<< <<"clf", <<"NB">> >> >>, [clf |-> EmptyDict]),
      \* no steps
      MkSpec(<< >>, EmptyDict) }

FitterLists ==
    UNION { [1..n -> NameChoices \X SpecChoices] : n \in 0..MaxFitters }

\* the caller gives none of the four parameters, or some of them
ArgChoices ==
    { EmptyDict,
      [word_length |-> PyInt("4"), multioutput |-> PyBool(TRUE)] }

Outcomes == {"ok", "FitError"}

TextChoices == {SpecDumps(sp) : sp \in SpecChoices} \cup {Garbage}

\* values a caller may pass for an exposed parameter instead of its default
AltValues(annotation) ==
    CASE annotation = "int" -> {PyInt("5")}
      [] annotation = "float" -> {PyFloat("0.01")}
      [] annotation = "bool" -> {PyBool(FALSE)}
      [] OTHER -> {PyStr(<<"l2">>), PyStr(<<"5">>)}

\* the constructor-derived parameters of a synthesized signature
Exposed(signature) == SubSeq(signature, Len(FixedParams) + 1, Len(signature))

\* every exposed parameter at its exposed default, as the framework passes them
ExposedDefaults(signature) ==
    LET e == Exposed(signature)
    IN  [n \in {e[i].name : i \in 1..Len(e)} |->
            (CHOOSE q \in {e[i] : i \in 1..Len(e)} : q.name = n).default]

KwargsChoices(signature, cls) ==
    LET e == Exposed(signature)
        dflt == ExposedDefaults(signature)
        ctor == ClassDefs[cls]
    IN  {EmptyDict, dflt, DictSet(dflt, "bogus", PyInt("1"))}
        \cup UNION {{DictSet(dflt, e[i].name, v) : v \in AltValues(e[i].annotation)} :
                       i \in 1..Len(e)}
        \cup {DictSet(dflt, ctor[i].name, PyInt("5")) :
                 i \in {j \in Named(cls) : Skipped(ctor[j])}}

----------------------------------------------------------------------------
(* The module-level code run at import, then the calls of the actions *)

\* a call of plugin.methods.register_function: the function, its __name__ as
\* read by the call, and the inputs, parameters and signature passed
Registration(func, of, name, inputs, parameters, signature) ==
    [func |-> func, of |-> of, name |-> name, inputs |-> inputs,
     parameters |-> parameters, signature |-> signature]

FitClassifierParameters == DictUpdate([classifier_specification |-> "Str"], _fitter_parameters)

ClassifyParams ==
    << SigParam("reads", "POSITIONAL_OR_KEYWORD", PyEmpty, "generator"),
       SigParam("classifier", "POSITIONAL_OR_KEYWORD", PyEmpty, "dict") >>

Init ==
    /\ pc = "L55"
    /\ idx = 1
    /\ fitters \in FitterLists
    /\ fnname = [fit_classifier |-> <<"fit", "_", "classifier">>, classify |-> <<"classify">>]
    /\ calls = <<>>
    /\ last = None
    /\ pred = None

\* lines 55-63
RegisterFitClassifier ==
    /\ pc = "L55"
    /\ calls' = Append(calls, Registration("fit_classifier", 0, fnname.fit_classifier,
                    "Sequence", FitClassifierParameters, FitClassifierParams))
    /\ pc' = "L65"
    /\ UNCHANGED <<idx, fitters, fnname, last, pred>>

\* lines 65-74
RegisterFitClassifierPairedEnd ==
    /\ pc = "L65"
    /\ fnname' = [fnname EXCEPT !.fit_classifier =
                     <<"fit", "_", "classifier", "_", "paired", "_", "end">>]
    /\ calls' = Append(calls, Registration("fit_classifier", 0, fnname'.fit_classifier,
                    "PairedEndSequence", FitClassifierParameters, FitClassifierParams))
    /\ pc' = "L85"
    /\ UNCHANGED <<idx, fitters, last, pred>>

\* lines 85-93
RegisterClassify ==
    /\ pc = "L85"
    /\ calls' = Append(calls, Registration("classify", 0, fnname.classify,
                    "Sequence", EmptyDict, ClassifyParams))
    /\ pc' = "L95"
    /\ UNCHANGED <<idx, fitters, fnname, last, pred>>

\* lines 95-104
RegisterClassifyPairedEnd ==
    /\ pc = "L95"
    /\ fnname' = [fnname EXCEPT !.classify = <<"classify", "_", "paired", "_", "end">>]
    /\ calls' = Append(calls, Registration("classify", 0, fnname'.classify,
                    "PairedEndSequence", EmptyDict, ClassifyParams))
    /\ pc' = "L178"
    /\ UNCHANGED <<idx, fitters, last, pred>>

\* a faulty variant of FitterRegistrations: the paired-end registration is missing
FitterRegistrations_SingleEndOnly(i, name, fitter) ==
    << Registration("generic_fitter", i, <<"fit", "_", "classifier", "_">> \o name,
                    "Sequence", fitter.parameters, fitter.signature) >>

\* lines 156-176: the two registrations of one generic_fitter, each reading
\* the __name__ assigned just before it
FitterRegistrations(i, name, fitter) ==
    LET first == <<"fit", "_", "classifier", "_">> \o name
        second == <<"fit", "_", "classifier", "_">> \o name \o <<"_", "paired", "_", "end">>
    IN  << Registration("generic_fitter", i, first, "Sequence",
                        fitter.parameters, fitter.signature),
           Registration("generic_fitter", i, second, "PairedEndSequence",
                        fitter.parameters, fitter.signature) >>

\* one iteration of the loop of lines 178-179: _register_fitter(name, pipeline)
RegisterFitter ==
    /\ pc = "L178"
    /\ idx <= Len(fitters)
    /\ LET fitter == Synthesize(fitters[idx][2])
       IN  IF IsError(fitter)
           THEN /\ pc' = "failed"
                /\ UNCHANGED <<idx, calls>>
           ELSE /\ calls' = calls \o FitterRegistrations(idx, fitters[idx][1], fitter)
                /\ idx' = idx + 1
                /\ pc' = pc
    /\ UNCHANGED <<fitters, fnname, last, pred>>

\* the loop of line 178 ends: the module is loaded
FinishLoad ==
    /\ pc = "L178"
    /\ idx > Len(fitters)
    /\ pc' = "done"
    /\ UNCHANGED <<idx, fitters, fnname, calls, last, pred>>

\* the registrations made for the i-th entry of _specific_fitters
CallsOf(i) == {k \in 1..Len(calls) : calls[k].func = "generic_fitter" /\ calls[k].of = i}

\* a caller invokes fit_classifier
CallFitClassifier ==
    /\ pc = "done" /\ last = None
    /\ \E text \in TextChoices, given \in ArgChoices, outcome \in Outcomes :
          last' = ("idx" :> 0) @@ fit_classifier(text, given, outcome)
    /\ UNCHANGED <<pc, idx, fitters, fnname, calls, pred>>

\* a caller invokes the specialized fitter made for the i-th entry
CallGenericFitter ==
    /\ pc = "done" /\ last = None
    /\ \E i \in 1..Len(fitters) :
         LET spec == fitters[i][2]
             reg == calls[CHOOSE k \in CallsOf(i) : TRUE]
         IN  \E kwargs \in KwargsChoices(reg.signature, _load_class(spec.steps[Len(spec.steps)][2]).name),
                given \in ArgChoices, outcome \in Outcomes :
               LET run == generic_fitter(spec, given, kwargs, outcome)
               IN  /\ last' = ("idx" :> i) @@ run
                   /\ fitters' = [fitters EXCEPT ![i] = <<fitters[i][1], run.shared>>]
    /\ UNCHANGED <<pc, idx, fnname, calls, pred>>

\* a caller passes the record a fit action returned to classify
Classify ==
    /\ pc = "done" /\ last # None /\ pred = None
    /\ ~IsError(last.out)
    /\ pred' = classify(last.out.val)
    /\ UNCHANGED <<pc, idx, fitters, fnname, calls, last>>

\* the caller drops what the calls returned
Return ==
    /\ pc = "done" /\ last # None
    /\ last' = None
    /\ pred' = None
    /\ UNCHANGED <<pc, idx, fitters, fnname, calls>>

Next ==
    \/ RegisterFitClassifier
    \/ RegisterFitClassifierPairedEnd
    \/ RegisterClassify
    \/ RegisterClassifyPairedEnd
    \/ RegisterFitter
    \/ FinishLoad
    \/ CallFitClassifier
    \/ CallGenericFitter
    \/ Classify
    \/ Return

Spec == Init /\ [][Next]_vars

----------------------------------------------------------------------------
(* Properties of the synthesized fitters *)

\* the register_function calls made for synthesized fitters
GenericRegs == {k \in 1..Len(calls) : calls[k].func = "generic_fitter"}

\* the specification the k-th call's fitter was made from
SpecOfReg(k) == fitters[calls[k].of][2]

\* the constructor of the final step's class of a specification
FinalCtor(spec) ==
    LET c == spec.steps[Len(spec.steps)][2] IN ClassDefs[c[Len(c)]]

\* what the specification gives for the final step
FinalDefaults(spec) == spec.kw[spec.steps[Len(spec.steps)][1]]

NamesOf(params) == [i \in 1..Len(params) |-> params[i].name]

NotCallableDefault(p) == p.default.t # "callable"

SixFixed ==
    <<"reference_reads", "reference_taxonomy", "word_length",
      "taxonomy_separator", "taxonomy_depth", "multioutput">>

\* the parts of C1 that do not depend on which constructor parameters are exposed
FixedPartOk(sig) ==
    /\ Len(sig) >= 6
    /\ NamesOf(SubSeq(sig, 1, 6)) = SixFixed
    /\ \A i, j \in 1..Len(sig) : i # j => sig[i].name # sig[j].name
    /\ \A i \in 1..Len(sig) : sig[i].kind # "VAR_KEYWORD" /\ sig[i].name # "kwargs"

\* C1 as stated: every synthesized signature is the six fixed parameters followed
\* by every parameter of the final step's constructor, once each, in constructor
\* order, without **kwargs.
C1_EveryConstructorParameter ==
    \A k \in GenericRegs :
        LET sig == calls[k].signature
        IN  /\ FixedPartOk(sig)
            /\ NamesOf(SubSeq(sig, 7, Len(sig))) = NamesOf(FinalCtor(SpecOfReg(k)))

\* C1 amended: every synthesized signature is the six fixed parameters followed by
\* exactly the constructor parameters whose default is not callable (a parameter
\* without default has the callable inspect.Parameter.empty as default), once
\* each, in constructor order, without **kwargs.
C1_NonCallableConstructorParameters ==
    \A k \in GenericRegs :
        LET sig == calls[k].signature
        IN  /\ FixedPartOk(sig)
            /\ NamesOf(SubSeq(sig, 7, Len(sig))) =
                  NamesOf(SelectSeq(FinalCtor(SpecOfReg(k)), NotCallableDefault))

\* a fitter was synthesized for a class that has parameters with and without
\* callable defaults
C1_Witness ==
    /\ pc = "done"
    /\ \E k \in GenericRegs :
          LET ctor == FinalCtor(SpecOfReg(k))
          IN  /\ \E i \in 1..Len(ctor) : ~NotCallableDefault(ctor[i])
              /\ \E i \in 1..Len(ctor) : NotCallableDefault(ctor[i])
              /\ Len(calls[k].signature) > 6

\* the constructor's parameter called n
CtorParam(spec, n) ==
    LET ctor == FinalCtor(spec)
    IN  ctor[CHOOSE i \in 1..Len(ctor) : ctor[i].name = n]

\* a default as the synthesized signature shows it
Shown(d) == IF d.t \in {"int", "float", "bool"} THEN d ELSE json_dumps(d)

\* C2 as stated: the exposed default of every constructor-derived parameter is the
\* constructor's default itself when that is an int, float or bool, and otherwise
\* its JSON text.
C2_ConstructorDefault ==
    \A k \in GenericRegs :
        LET sig == calls[k].signature
        IN  \A i \in 7..Len(sig) :
                sig[i].default = Shown(CtorParam(SpecOfReg(k), sig[i].name).default)

\* C2 amended: the exposed default of every constructor-derived parameter comes
\* from the value the specification gives the final step for that parameter, and
\* from the constructor's default only when the specification gives none; it is
\* that value itself when it is an int, float or bool, and otherwise its JSON text.
C2_SpecThenConstructorDefault ==
    \A k \in GenericRegs :
        LET sig == calls[k].signature
            given == FinalDefaults(SpecOfReg(k))
        IN  \A i \in 7..Len(sig) :
                sig[i].default =
                    Shown(IF sig[i].name \in DOMAIN given THEN given[sig[i].name]
                          ELSE CtorParam(SpecOfReg(k), sig[i].name).default)

\* a fitter was synthesized from a specification that overrides a constructor
\* default, for a class that also has a default that is shown as JSON text
C2_Witness ==
    /\ pc = "done"
    /\ \E k \in GenericRegs :
          LET sig == calls[k].signature
              given == FinalDefaults(SpecOfReg(k))
          IN  /\ \E i \in 7..Len(sig) :
                    /\ sig[i].name \in DOMAIN given
                    /\ given[sig[i].name] # CtorParam(SpecOfReg(k), sig[i].name).default
              /\ \E i \in 7..Len(sig) : sig[i].default.t = "str"

WorkflowType(d) ==
    CASE d.t = "int" -> "Int"
      [] d.t = "float" -> "Float"
      [] d.t = "bool" -> "Bool"
      [] OTHER -> "Str"

\* C3: for every parameter of a synthesized signature other than the two inputs,
\* the registered workflow type agrees with the annotation and with the type of
\* the default (Int, Float, Bool for int, float, bool and Str for anything else,
\* the default then being shown as text), and the registered parameters are
\* exactly those parameters.
C3_TypesAgree ==
    \A k \in GenericRegs :
        LET sig == calls[k].signature
            pm == calls[k].parameters
            spec == SpecOfReg(k)
            given == FinalDefaults(spec)
        IN  /\ DOMAIN pm = {sig[i].name : i \in 3..Len(sig)}
            /\ \A i \in 3..Len(sig) :
                  /\ pm[sig[i].name] = WorkflowType(sig[i].default)
                  /\ sig[i].annotation = sig[i].default.t
                  /\ sig[i].annotation \in {"int", "float", "bool", "str"}
            /\ \A i \in 7..Len(sig) :
                  pm[sig[i].name] =
                      WorkflowType(IF sig[i].name \in DOMAIN given THEN given[sig[i].name]
                                   ELSE CtorParam(spec, sig[i].name).default)

\* a fitter was registered whose constructor has a bool default and a None default
C3_Witness ==
    /\ pc = "done"
    /\ \E k \in GenericRegs :
          LET ctor == FinalCtor(SpecOfReg(k))
          IN  /\ \E i \in 1..Len(ctor) : ctor[i].default.t = "bool"
              /\ \E i \in 1..Len(ctor) : ctor[i].default = PyNone
              /\ "fit_prior" \in DOMAIN calls[k].parameters

\* C4 as stated: once the module is loaded, there is exactly one registration of
\* a specialized fitter per entry of _specific_fitters.
C4_OnePerSpecification ==
    pc = "done" => Cardinality(GenericRegs) = Len(fitters)

FitPrefix == <<"fit", "_", "classifier", "_">>
PairedSuffix == <<"_", "paired", "_", "end">>

\* C4 amended: once the module is loaded, register_function has been called four
\* times for the fixed actions (fit_classifier and classify, each single-end and
\* paired-end) and then exactly twice per entry of _specific_fitters, in list
\* order: as fit_classifier_<name> on single-end reads and as
\* fit_classifier_<name>_paired_end on paired-end reads.
C4_TwoPerSpecification ==
    pc = "done" =>
        /\ Len(calls) = 4 + 2 * Len(fitters)
        /\ [k \in 1..4 |-> calls[k].func] =
              <<"fit_classifier", "fit_classifier", "classify", "classify">>
        /\ \A i \in 1..Len(fitters) :
              LET a == calls[3 + 2 * i]
                  b == calls[4 + 2 * i]
              IN  /\ a.func = "generic_fitter" /\ a.of = i
                  /\ b.func = "generic_fitter" /\ b.of = i
                  /\ a.name = FitPrefix \o fitters[i][1]
                  /\ b.name = FitPrefix \o fitters[i][1] \o PairedSuffix
                  /\ a.inputs = "Sequence" /\ b.inputs = "PairedEndSequence"

\* the module loaded with two entries in _specific_fitters
C4_Witness == pc = "done" /\ Len(fitters) = 2 /\ Len(calls) = 8

----------------------------------------------------------------------------
(* Properties of the calls of the actions *)

IsPipeline(x) == x.t = "Pipeline"

\* the class a dotted class name ends with
ClassOf(c) == c[Len(c)]

\* C5: when _pipeline_from_spec returns, the Pipeline has one step per entry of
\* spec['steps'], in the same order, each the pair of the step's name and an
\* instance of the step's class built with exactly the keyword arguments the spec
\* holds under that step's name, or with none when it holds nothing under it.
C5_PipelineFollowsSpec ==
    (last # None /\ IsPipeline(last.built)) =>
        LET spec == last.spec
            steps == last.built.steps
        IN  /\ Len(steps) = Len(spec.steps)
            /\ \A i \in 1..Len(steps) :
                  /\ steps[i][1] = spec.steps[i][1]
                  /\ steps[i][2].t = "instance"
                  /\ steps[i][2].cls = ClassOf(spec.steps[i][2])
                  /\ steps[i][2].kwargs =
                        (IF steps[i][1] \in DOMAIN spec.kw THEN spec.kw[steps[i][1]]
                         ELSE EmptyDict)

\* a pipeline of two steps was built, one step with arguments in the spec and one
\* without, the two steps' arguments being different
C5_Witness ==
    /\ last # None /\ IsPipeline(last.built)
    /\ Len(last.built.steps) = 2
    /\ last.built.steps[1][1] \in DOMAIN last.spec.kw
    /\ last.built.steps[2][1] \notin DOMAIN last.spec.kw
    /\ last.built.steps[1][2].kwargs # EmptyDict
    /\ last.built.steps[2][2].kwargs = EmptyDict

\* the result of building the n-th step of the spec a fit action passed on
StepResult(n) == BuildStep(last.spec, last.spec.steps[n][1], last.spec.steps[n][2])

FailingSteps == {n \in 1..Len(last.spec.steps) : IsError(StepResult(n))}

FirstFailing == CHOOSE n \in FailingSteps : \A m \in FailingSteps : n <= m

\* errors of parsing classifier_specification, of loading a class, of building
\* a step and of fit_pipeline reach the caller; nothing is returned and
\* fit_pipeline is not called once a step has failed
ErrorsPropagate ==
    last # None =>
        IF IsError(last.spec)
        THEN last.out = last.spec /\ last.fit_args = <<>> /\ last.spec = SpecLoads(last.text)
        ELSE IF FailingSteps # {}
        THEN last.out = StepResult(FirstFailing) /\ last.fit_args = <<>>
        ELSE /\ Len(last.fit_args) = 1
             /\ IsError(last.fitted) => last.out = last.fitted
             /\ ~IsError(last.fitted) =>
                   /\ ~IsError(last.out)
                   /\ last.out.val["pipeline"] = last.fitted

\* C6 as stated: in every fit action every error of the JSON parser or of the
\* library reaches the caller and none is caught.
C6_NoErrorCaught ==
    /\ ErrorsPropagate
    /\ last # None =>
          \A p \in DOMAIN last.kwargs :
              IsError(json_loads(last.kwargs[p])) => last.out = json_loads(last.kwargs[p])

\* C6 amended: in every fit action an error of parsing classifier_specification,
\* of loading a class, of building a step or of fit_pipeline is what the caller
\* receives, no record is returned and fit_pipeline is not called after the
\* failing step; only the JSONDecodeError or TypeError that json.loads raises on a
\* keyword argument of a specialized fitter is caught, and that argument then
\* reaches the final step as it was passed.
C6_OnlyKwargDecodingCaught ==
    /\ ErrorsPropagate
    /\ last # None =>
          \A p \in DOMAIN last.kwargs :
              LET d == json_loads(last.kwargs[p])
                  key == last.spec.steps[Len(last.spec.steps)][1]
              IN  /\ last.op = "generic_fitter"
                  /\ IsError(d) => /\ d.v[1] \in {"JSONDecodeError", "TypeError"}
                                   /\ last.spec.kw[key][p] = last.kwargs[p]
                                   /\ last.caught[p] = d
                  /\ ~IsError(d) => last.spec.kw[key][p] = d /\ p \notin DOMAIN last.caught

\* a specialized fitter caught the error of decoding an argument and then failed
\* in building a step, the caller receiving that failure
C6_Witness ==
    /\ last # None /\ last.op = "generic_fitter"
    /\ DOMAIN last.caught # {}
    /\ FailingSteps # {}
    /\ IsError(last.out)

\* C7: a call of a specialized fitter leaves the specification it was registered
\* with, and every other entry of _specific_fitters, as it was.
C7_SpecUnchanged == [][fitters' = fitters]_vars

\* a specialized fitter ran with arguments other than the specification's own
C7_Witness ==
    /\ last # None /\ last.op = "generic_fitter"
    /\ last.spec # fitters[last.idx][2]
    /\ ~IsError(last.out)

\* C8: the record of a fit action has the keys params and pipeline; params holds
\* word_length, taxonomy_separator, taxonomy_depth and multioutput as the caller
\* passed them, or 8, '', -1 and False; and classify calls predict with the
\* keyword arguments fit_pipeline was called with and the pipeline it returned.
C8_ClassifyUsesFitParams ==
    (last # None /\ ~IsError(last.out)) =>
        LET rec == last.out.val
            params == rec["params"]
        IN  /\ DOMAIN rec = {"params", "pipeline"}
            /\ DOMAIN params =
                  {"word_length", "taxonomy_separator", "taxonomy_depth", "multioutput"}
            /\ \A n \in DOMAIN params :
                  params[n] =
                      IF n \in DOMAIN last.given THEN last.given[n]
                      ELSE CASE n = "word_length" -> PyInt("8")
                             [] n = "taxonomy_separator" -> PyStr(<<>>)
                             [] n = "taxonomy_depth" -> PyInt("-1")
                             [] n = "multioutput" -> PyBool(FALSE)
            /\ Len(last.fit_args) = 1
            /\ last.fit_args[1].kwargs = params
            /\ pred # None =>
                  /\ pred.kwargs = last.fit_args[1].kwargs
                  /\ pred.pipeline = last.fitted

\* classify ran on the record of a specialized fitter called with two of the
\* four parameters given and two left at their defaults
C8_Witness ==
    /\ pred # None /\ last # None
    /\ last.op = "generic_fitter"
    /\ DOMAIN last.given = {"word_length", "multioutput"}

\* the signature registered for the fitter of the call in progress
SignatureOfLast == calls[CHOOSE k \in CallsOf(last.idx) : TRUE].signature

\* C9: a specialized fitter called with every constructor-derived parameter at
\* its exposed default builds what fit_classifier builds from the JSON text of
\* the same specification: the same classes, every constructor parameter of
\* every step receiving the same value.
C9_DefaultsEquivalentToFitClassifier ==
    (last # None /\ last.op = "generic_fitter"
       /\ last.kwargs = ExposedDefaults(SignatureOfLast)) =>
        LET other == fit_classifier(SpecDumps(fitters[last.idx][2]), last.given, "ok").built
            mine == last.built
        IN  /\ IsPipeline(other) <=> IsPipeline(mine)
            /\ IsPipeline(other) =>
                  /\ Len(mine.steps) = Len(other.steps)
                  /\ \A i \in 1..Len(other.steps) :
                        /\ mine.steps[i][1] = other.steps[i][1]
                        /\ mine.steps[i][2].cls = other.steps[i][2].cls
                        /\ Effective(mine.steps[i][2]) = Effective(other.steps[i][2])

\* C10: when the names of _specific_fitters are pairwise distinct, no two calls of
\* register_function are made under the same name.
C10_DistinctRegistrationNames ==
    (\A i, j \in 1..Len(fitters) : i # j => fitters[i][1] # fitters[j][1]) =>
        \A j, k \in 1..Len(calls) : j # k => calls[j].name # calls[k].name

=============================================================================
